---- MODULE Spec2Model ----
(***************************************************************************)
(* Proof-of-History log (src/src/log.rs): the entry/event data model, the  *)
(* hashing discipline, the producer API and the serial and parallel        *)
(* verifiers.                                                              *)
(*                                                                         *)
(* Cryptography is modelled symbolically.  A SHA-256 digest is the term    *)
(* <<"sha256", input>> over the hashed byte string, so hash is             *)
(* deterministic and two digests are equal exactly when their inputs are   *)
(* (no collisions, no cycles).  An Ed25519 signature is the term           *)
(* <<"ed25519", public key of the signer, message>>, so a signature        *)
(* verifies exactly under the signer's public key and the signed message   *)
(* (no forgery).  Byte strings are sequences of blocks: a digest, a tag    *)
(* byte or a signature each count as one block.                            *)
(***************************************************************************)
EXTENDS Integers, Sequences, FiniteSets, TLC

\* ------------------------------------------------------------------ bounds
MaxLen == 2        \* longest chain built
MaxHashes == 1     \* largest num_hashes handed to the producer
NumKeys == 2       \* keypairs generated

\* ------------------------------------------------------- crypto primitives
\* Sha256Hash::default(): the all-zero digest.
Zero == <<"default", <<>>>>

\* hash(val): SHA-256 of the byte string val.
hash(val) == <<"sha256", val>>

\* tests: let one = hash(&zero)
One == hash(<<Zero>>)

\* extend_and_hash: hash(end_hash || ty || val)
extend_and_hash(end_hash, ty, val) ==
    LET hash_data == Append(<<end_hash>>, ty) \o val
    IN  hash(hash_data)

\* generate_keypair(): the i-th keypair drawn from the system RNG.
generate_keypair(i) == [public_key_bytes |-> <<"pub", i>>, pkcs8 |-> <<"priv", i>>]

get_pubkey(keypair) == keypair.public_key_bytes

\* Variant: the recipient is left out of the signed transfer message.
serialize_data_to_unbound(data, to) == <<data>>

\* bincode::serialize of a payload of type T = Sha256Hash, and of (data, to).
serialize_data(data) == <<data>>
serialize_data_to(data, to) == <<data>> \o <<to>>

\* keypair.sign(serialized): Ed25519 signature by the keypair's private key.
sign_bytes(serialized, keypair) == <<"ed25519", keypair.public_key_bytes, serialized>>

sign_serialized(data, keypair) == sign_bytes(serialize_data(data), keypair)

sign_transaction_data(data, keypair, to) == sign_bytes(serialize_data_to(data, to), keypair)

\* verify_signature: ring::signature::verify(...).is_ok()
verify_signature(peer_public_key_bytes, msg_bytes, sig_bytes) ==
    sig_bytes = <<"ed25519", peer_public_key_bytes, msg_bytes>>

\* -------------------------------------------------------------- data model
Tick == [type |-> "Tick"]
Claim(key, data, sig) == [type |-> "Claim", key |-> key, data |-> data, sig |-> sig]
Transaction(from, to, data, sig) ==
    [type |-> "Transaction", from |-> from, to |-> to, data |-> data, sig |-> sig]

Entry(num_hashes, end_hash, event) ==
    [num_hashes |-> num_hashes, end_hash |-> end_hash, event |-> event]

new_tick(num_hashes, end_hash) == Entry(num_hashes, end_hash, Tick)

\* ---------------------------------------------------------- hash discipline
\* Variant: the event kind is folded in, the signature is not.
hash_event_no_sig(end_hash, event) ==
    CASE event.type = "Tick" -> end_hash
      [] event.type = "Claim" -> extend_and_hash(end_hash, 2, <<>>)
      [] event.type = "Transaction" -> extend_and_hash(end_hash, 3, <<>>)

hash_event(end_hash, event) ==
    CASE event.type = "Tick" -> end_hash
      [] event.type = "Claim" -> extend_and_hash(end_hash, 2, <<event.sig>>)
      [] event.type = "Transaction" -> extend_and_hash(end_hash, 3, <<event.sig>>)

\* Variant: the loop runs over 1..num_hashes, one iteration short.
RECURSIVE hash_times_short(_, _)
hash_times_short(end_hash, num_hashes) ==
    IF num_hashes <= 1 THEN end_hash
    ELSE hash_times_short(hash(<<end_hash>>), num_hashes - 1)

RECURSIVE hash_times(_, _)
hash_times(end_hash, num_hashes) ==
    IF num_hashes = 0 THEN end_hash
    ELSE hash_times(hash(<<end_hash>>), num_hashes - 1)

next_hash(start_hash, num_hashes, event) ==
    hash_event(hash_times(start_hash, num_hashes), event)

\* ---------------------------------------------------------------- producer
next_entry(start_hash, num_hashes, event) ==
    Entry(num_hashes, next_hash(start_hash, num_hashes, event), event)

\* Variant: the caller's anchor is not overwritten.
next_entry_mut_stale(start_hash, num_hashes, event) ==
    [entry |-> next_entry(start_hash, num_hashes, event), start_hash |-> start_hash]

\* next_entry_mut: the entry and the caller's anchor after the call.
next_entry_mut(start_hash, num_hashes, event) ==
    LET entry == next_entry(start_hash, num_hashes, event)
    IN  [entry |-> entry, start_hash |-> entry.end_hash]

next_tick(start_hash, num_hashes) == next_entry(start_hash, num_hashes, Tick)

RECURSIVE create_entries_from(_, _, _)
create_entries_from(end_hash, num_hashes, events) ==
    IF events = <<>> THEN <<>>
    ELSE LET r == next_entry_mut(end_hash, num_hashes, Head(events))
         IN  <<r.entry>> \o create_entries_from(r.start_hash, num_hashes, Tail(events))

create_entries(start_hash, num_hashes, events) ==
    create_entries_from(start_hash, num_hashes, events)

\* Variant: every tick is computed from start_hash (next_entry for next_entry_mut).
create_ticks_unchained(start_hash, num_hashes, len) ==
    [i \in 1..len |-> next_tick(start_hash, num_hashes)]

create_ticks(start_hash, num_hashes, len) ==
    create_entries_from(start_hash, num_hashes, [i \in 1..len |-> Tick])

\* ---------------------------------------------------------------- verifier
\* Variant: only Claim signatures are checked.
verify_event_claims_only(event) ==
    IF event.type = "Claim"
         /\ ~verify_signature(event.key, serialize_data(event.data), event.sig)
    THEN FALSE
    ELSE TRUE

verify_event(event) ==
    IF event.type = "Claim"
         /\ ~verify_signature(event.key, serialize_data(event.data), event.sig)
    THEN FALSE
    ELSE IF event.type = "Transaction"
              /\ ~verify_signature(event.from, serialize_data_to(event.data, event.to), event.sig)
         THEN FALSE
         ELSE TRUE

\* Variant: the event's signature is not checked.
verify_entry_hash_only(entry, start_hash) ==
    entry.end_hash = next_hash(start_hash, entry.num_hashes, entry.event)

verify_entry(entry, start_hash) ==
    IF ~verify_event(entry.event) THEN FALSE
    ELSE entry.end_hash = next_hash(start_hash, entry.num_hashes, entry.event)

\* Variant: the genesis tick carries the default hash, not start_hash.
event_pair_default_genesis(events, start_hash, i) ==
    [x0 |-> IF i = 1 THEN new_tick(0, Zero) ELSE events[i - 1], x1 |-> events[i]]

\* genesis.iter().chain(events).zip(events): pair i is (x0, x1) with x1 = events[i]
\* and x0 the genesis tick for i = 1, events[i-1] otherwise.
event_pair(events, start_hash, i) ==
    [x0 |-> IF i = 1 THEN new_tick(0, start_hash) ELSE events[i - 1], x1 |-> events[i]]

verify_pair(events, start_hash, i) ==
    LET p == event_pair(events, start_hash, i)
    IN  verify_entry(p.x1, p.x0.end_hash)

\* Variant: the result of the first pair is returned.
all_from_first_only(events, start_hash, i) ==
    IF i > Len(events) THEN TRUE
    ELSE verify_pair(events, start_hash, i)

\* Iterator::all over the pairs in order, stopping at the first failure.
RECURSIVE all_from(_, _, _)
all_from(events, start_hash, i) ==
    IF i > Len(events) THEN TRUE
    ELSE IF ~verify_pair(events, start_hash, i) THEN FALSE
         ELSE all_from(events, start_hash, i + 1)

verify_slice_seq(events, start_hash) == all_from(events, start_hash, 1)

\* ------------------------------------------------------------------ inputs
Anchors == {Zero, One}
Data == {Zero, One}
KeyIds == 1..NumKeys
PublicKeys == {get_pubkey(generate_keypair(i)) : i \in KeyIds}

\* The recipient used for the transfers of keypair i: the next keypair's key.
Peer(i) == get_pubkey(generate_keypair((i % NumKeys) + 1))

\* tests::test_claim, tests::test_reorder_attack: correctly signed claims, one
\* over Zero by every keypair and one over One by the first.
SignedClaims ==
    {Claim(get_pubkey(generate_keypair(i)), Zero, sign_serialized(Zero, generate_keypair(i))) :
        i \in KeyIds}
    \cup {Claim(get_pubkey(generate_keypair(1)), One, sign_serialized(One, generate_keypair(1)))}

\* tests::test_transfer: correctly signed transfers.
SignedTransfers ==
    {Transaction(get_pubkey(generate_keypair(i)), Peer(i), Zero,
                 sign_transaction_data(Zero, generate_keypair(i), Peer(i))) : i \in KeyIds}

\* tests::test_wrong_data_claim_attack, tests::test_transfer_hijack_attack: events
\* whose fields differ from what was signed.
AttackEvents ==
    LET kp == generate_keypair(1)
    IN  { Claim(get_pubkey(kp), One, sign_serialized(Zero, kp)),
          Transaction(get_pubkey(kp), get_pubkey(kp), One,
                      sign_transaction_data(Zero, kp, Peer(1))) }

Events == {Tick} \cup SignedClaims \cup SignedTransfers \cup AttackEvents

HashCounts == 0..MaxHashes

RECURSIVE SeqsUpTo(_, _)
SeqsUpTo(S, n) ==
    IF n = 0 THEN {<<>>}
    ELSE LET shorter == SeqsUpTo(S, n - 1)
         IN  shorter \cup {Append(s, x) : s \in {t \in shorter : Len(t) = n - 1}, x \in S}

EventsOf(es) == [i \in 1..Len(es) |-> es[i].event]

\* ------------------------------------------------------------------- state
VARIABLES
    anchor,      \* the hash the producer started from
    end_hash,    \* the producer's rolling anchor (next_entry_mut's start_hash)
    entries,     \* the chain held by the caller
    origin,      \* how the chain was produced: "none", "stream" (next_entry_mut calls
                 \* only), "mixed", "create_entries", "create_ticks"
    original,    \* the chain before it was tampered with
    tamper,      \* the single modification made to a verified chain
    start_hash,  \* the anchor handed to the verifier
    pc,          \* "produce", "tampered", "verify" (parallel checks running), "done"
    claimed,     \* pairs a worker has taken
    checked,     \* pairs whose verify_entry has returned
    full,        \* the parallel `all` has seen a failing pair
    verdict      \* the verifier's return value

vars == <<anchor, end_hash, entries, origin, original, tamper, start_hash, pc,
          claimed, checked, full, verdict>>

NoTamper == [kind |-> "none", index |-> 0]

Init ==
    /\ anchor \in Anchors
    /\ end_hash = anchor
    /\ entries = <<>>
    /\ origin = "none"
    /\ original = <<>>
    /\ tamper = NoTamper
    /\ start_hash = anchor
    /\ pc = "produce"
    /\ claimed = {}
    /\ checked = {}
    /\ full = FALSE
    /\ verdict = FALSE

\* ---------------------------------------------------------------- producer
\* One streaming call: entries.push(next_entry_mut(&mut end_hash, n, event)).
NextEntryMut ==
    /\ pc = "produce"
    /\ origin \in {"none", "stream", "mixed"}
    /\ Len(entries) < MaxLen
    /\ \E num_hashes \in HashCounts, event \in Events :
          LET r == next_entry_mut(end_hash, num_hashes, event)
          IN  /\ entries' = Append(entries, r.entry)
              /\ end_hash' = r.start_hash
    /\ origin' = IF origin = "mixed" THEN "mixed" ELSE "stream"
    /\ UNCHANGED <<anchor, original, tamper, start_hash, pc, claimed, checked, full, verdict>>

\* entries = create_entries(&anchor, n, events)
CreateEntries ==
    /\ pc = "produce"
    /\ origin = "none"
    /\ \E num_hashes \in HashCounts, events \in SeqsUpTo(Events, MaxLen) :
          entries' = create_entries(anchor, num_hashes, events)
    /\ origin' = "create_entries"
    /\ UNCHANGED <<anchor, end_hash, original, tamper, start_hash, pc, claimed, checked,
                   full, verdict>>

\* entries = create_ticks(&anchor, n, len)
CreateTicks ==
    /\ pc = "produce"
    /\ origin = "none"
    /\ \E num_hashes \in HashCounts, len \in 0..MaxLen :
          entries' = create_ticks(anchor, num_hashes, len)
    /\ origin' = "create_ticks"
    /\ UNCHANGED <<anchor, end_hash, original, tamper, start_hash, pc, claimed, checked,
                   full, verdict>>

\* The caller appends Entry::new_tick(n, h): the fields are taken verbatim.
NewTick ==
    /\ pc = "produce"
    /\ origin \in {"none", "stream", "mixed"}
    /\ Len(entries) < MaxLen
    /\ \E num_hashes \in HashCounts, h \in Anchors :
          entries' = Append(entries, new_tick(num_hashes, h))
    /\ origin' = "mixed"
    /\ UNCHANGED <<anchor, end_hash, original, tamper, start_hash, pc, claimed, checked,
                   full, verdict>>

\* --------------------------------------------------------------- tampering
\* The holder of a chain that verifies against its anchor modifies it once,
\* as the tests do, before handing it to a verifier.
Intact ==
    /\ pc = "produce"
    /\ origin # "none"
    /\ verify_slice_seq(entries, anchor)

Tampered(kind, i) ==
    /\ original' = entries
    /\ tamper' = [kind |-> kind, index |-> i]
    /\ pc' = "tampered"
    /\ UNCHANGED <<anchor, end_hash, origin, start_hash, claimed, checked, full, verdict>>

\* tests::test_reorder_attack: entries[i].event and entries[i+1].event change places.
SwapEvents ==
    /\ Intact
    /\ \E i \in 1..(Len(entries) - 1) :
          /\ entries' = [entries EXCEPT ![i].event = entries[i + 1].event,
                                        ![i + 1].event = entries[i].event]
          /\ Tampered("swap", i)

\* tests::test_wrong_data_*_attack: the data field no longer is what was signed.
SetData ==
    /\ Intact
    /\ \E i \in 1..Len(entries) :
          /\ entries[i].event.type \in {"Claim", "Transaction"}
          /\ \E d \in Data \ {entries[i].event.data} :
                entries' = [entries EXCEPT ![i].event.data = d]
          /\ Tampered("data", i)

\* tests::test_transfer_hijack_attack: the recipient no longer is the one signed.
SetTo ==
    /\ Intact
    /\ \E i \in 1..Len(entries) :
          /\ entries[i].event.type = "Transaction"
          /\ \E to \in PublicKeys \ {entries[i].event.to} :
                entries' = [entries EXCEPT ![i].event.to = to]
          /\ Tampered("to", i)

\* entries.remove(i)
RemoveEntry ==
    /\ Intact
    /\ \E i \in 1..Len(entries) :
          /\ entries' = [j \in 1..(Len(entries) - 1) |->
                            IF j < i THEN entries[j] ELSE entries[j + 1]]
          /\ Tampered("remove", i)

\* tests::verify_slice_generic: bad_ticks[1].end_hash = one
SetEndHash ==
    /\ Intact
    /\ \E i \in 1..Len(entries) :
          /\ \E h \in Anchors \ {entries[i].end_hash} :
                entries' = [entries EXCEPT ![i].end_hash = h]
          /\ Tampered("end_hash", i)

\* ---------------------------------------------------------------- verifier
\* verify_slice_seq(&entries, &h)
VerifySliceSeq ==
    /\ pc \in {"produce", "tampered"}
    /\ \E h \in Anchors :
          /\ start_hash' = h
          /\ verdict' = verify_slice_seq(entries, h)
    /\ pc' = "done"
    /\ UNCHANGED <<anchor, end_hash, entries, origin, original, tamper, claimed, checked, full>>

\* verify_slice(&entries, &h) is called: the pairs are handed to the worker pool.
VerifySlice ==
    /\ pc \in {"produce", "tampered"}
    /\ \E h \in Anchors : start_hash' = h
    /\ pc' = "verify"
    /\ claimed' = {}
    /\ checked' = {}
    /\ full' = FALSE
    /\ UNCHANGED <<anchor, end_hash, entries, origin, original, tamper, verdict>>

\* A worker takes a pair nobody has taken.  The failure flag is read without
\* synchronisation, so a worker may take a pair after another one has failed.
StartCheck ==
    /\ pc = "verify"
    /\ \E i \in (1..Len(entries)) \ claimed : claimed' = claimed \cup {i}
    /\ UNCHANGED <<anchor, end_hash, entries, origin, original, tamper, start_hash, pc,
                   checked, full, verdict>>

\* Variant: the failure flag is stored, not or-ed: the last check to return wins.
FinishCheckLastWins ==
    /\ pc = "verify"
    /\ \E i \in claimed \ checked :
          /\ checked' = checked \cup {i}
          /\ full' = ~verify_pair(entries, start_hash, i)
    /\ UNCHANGED <<anchor, end_hash, entries, origin, original, tamper, start_hash, pc,
                   claimed, verdict>>

\* The worker's closure |(x0, x1)| verify_entry(&x1, &x0.end_hash) returns.
FinishCheck ==
    /\ pc = "verify"
    /\ \E i \in claimed \ checked :
          /\ checked' = checked \cup {i}
          /\ full' = (full \/ ~verify_pair(entries, start_hash, i))
    /\ UNCHANGED <<anchor, end_hash, entries, origin, original, tamper, start_hash, pc,
                   claimed, verdict>>

\* `all` returns once no check is running and either every pair was checked
\* or a failure was seen (the remaining pairs are skipped).
Return ==
    /\ pc = "verify"
    /\ claimed = checked
    /\ (full \/ checked = 1..Len(entries))
    /\ verdict' = ~full
    /\ pc' = "done"
    /\ UNCHANGED <<anchor, end_hash, entries, origin, original, tamper, start_hash,
                   claimed, checked, full>>

\* ---------------------------------------------------------- specifications
\* Production, one tampering, and the serial reference verifier.
Next ==
    \/ NextEntryMut
    \/ CreateEntries
    \/ CreateTicks
    \/ NewTick
    \/ SwapEvents
    \/ SetData
    \/ SetTo
    \/ RemoveEntry
    \/ SetEndHash
    \/ VerifySliceSeq

Spec == Init /\ [][Next]_vars

\* Production and the parallel verifier.
NextPar ==
    \/ NextEntryMut
    \/ NewTick
    \/ VerifySlice
    \/ StartCheck
    \/ FinishCheck
    \/ Return

SpecPar == Init /\ [][NextPar]_vars

\* ------------------------------------------------------------------ claims
\* The end_hash that precedes entry i of es in a chain anchored at h.
Prev(es, h, i) == IF i = 1 THEN h ELSE es[i - 1].end_hash

\* Entry i of es passes both per-entry checks in a chain anchored at h.
EntryOk(es, h, i) ==
    /\ verify_event(es[i].event)
    /\ es[i].end_hash = next_hash(Prev(es, h, i), es[i].num_hashes, es[i].event)

Untouched == tamper.kind = "none"

\* C1: whatever order the parallel pair checks ran in, and whether or not the
\* remaining pairs were skipped after a failure, verify_slice returns the
\* verdict verify_slice_seq gives for the same entries and anchor.
C1_ParallelEqualsSerial ==
    pc = "done" => verdict = verify_slice_seq(entries, start_hash)

\* A run that checked the last pair first, found it failing and skipped pair 1.
C1_Witness ==
    /\ pc = "done"
    /\ Len(entries) = MaxLen
    /\ checked = {MaxLen}
    /\ verdict = FALSE
    /\ verify_pair(entries, start_hash, 1)

\* C2: a chain made by create_ticks(h, n, k) verifies against h, for every
\* anchor, hash count and length (the empty chain and the single next_tick
\* included).
C2_CreateTicksVerifies ==
    (origin = "create_ticks" /\ Untouched) =>
        /\ (pc = "done" /\ start_hash = anchor) => verdict = TRUE
        /\ Len(entries) = 1 => entries = <<next_tick(anchor, entries[1].num_hashes)>>

C2_Witness ==
    /\ origin = "create_ticks"
    /\ Untouched
    /\ pc = "done"
    /\ start_hash = anchor
    /\ Len(entries) = MaxLen
    /\ entries[1].num_hashes = MaxHashes
    /\ verdict = TRUE

\* C3: an entry produced from anchor h by next_entry, verified alone against
\* a different anchor h', is rejected.
C3_AnchorSensitivity ==
    ( /\ pc = "done"
      /\ Untouched
      /\ Len(entries) = 1
      /\ entries[1] = next_entry(anchor, entries[1].num_hashes, entries[1].event)
      /\ start_hash # anchor )
    => verdict = FALSE

\* A correctly signed one-hash claim produced from One and verified against Zero.
C3_Witness ==
    /\ pc = "done"
    /\ Untouched
    /\ Len(entries) = 1
    /\ entries[1] = next_entry(anchor, 1, entries[1].event)
    /\ entries[1].event.type = "Claim"
    /\ verify_event(entries[1].event)
    /\ anchor = One
    /\ start_hash = Zero
    /\ verdict = FALSE

\* C4 as stated: after the events of two adjacent entries of a verifying chain
\* changed places (hashes and counts kept), the chain is rejected.
C4_AnySwapRejected ==
    (pc = "done" /\ tamper.kind = "swap" /\ start_hash = anchor) => verdict = FALSE

\* C4 amended: the chain is rejected when the two events that changed places
\* differ.
C4_DistinctSwapRejected ==
    ( /\ pc = "done"
      /\ tamper.kind = "swap"
      /\ start_hash = anchor
      /\ original[tamper.index].event # original[tamper.index + 1].event )
    => verdict = FALSE

\* Two different correctly signed claims changed places.
C4_Witness ==
    /\ pc = "done"
    /\ tamper.kind = "swap"
    /\ start_hash = anchor
    /\ original[tamper.index].event.type = "Claim"
    /\ original[tamper.index + 1].event.type = "Claim"
    /\ original[tamper.index].event # original[tamper.index + 1].event
    /\ verdict = FALSE

\* C5: after the data field of a Claim or Transaction of a verifying chain was
\* replaced by another value, the chain is rejected, and so is the chain whose
\* hashes create_entries recomputes from the tampered events.
C5_DataTamperRejected ==
    (pc = "done" /\ tamper.kind = "data") =>
        /\ verdict = FALSE
        /\ \A n \in HashCounts :
              ~verify_slice_seq(create_entries(start_hash, n, EventsOf(entries)), start_hash)

C5_Witness ==
    /\ pc = "done"
    /\ tamper.kind = "data"
    /\ start_hash = anchor
    /\ entries[tamper.index].event.type = "Transaction"
    /\ Len(entries) = MaxLen
    /\ verdict = FALSE

\* C6: after the to field of a correctly signed Transaction was replaced by
\* another public key, verify_event rejects the event, and every chain holding
\* it is rejected, also the one whose hashes are recomputed from it.
C6_RedirectRejected ==
    (pc = "done" /\ tamper.kind = "to") =>
        /\ verify_event(original[tamper.index].event)
        /\ ~verify_event(entries[tamper.index].event)
        /\ verdict = FALSE
        /\ \A n \in HashCounts :
              ~verify_slice_seq(create_entries(start_hash, n, EventsOf(entries)), start_hash)

C6_Witness ==
    /\ pc = "done"
    /\ tamper.kind = "to"
    /\ start_hash = anchor
    /\ entries[tamper.index].event.to # original[tamper.index].event.to
    /\ entries[tamper.index].event.sig = original[tamper.index].event.sig
    /\ verdict = FALSE

\* C7: the verdict is the conjunction of the per-entry checks: true exactly
\* when every entry has an event that passes verify_event and an end_hash equal
\* to next_hash of its predecessor's end_hash (the anchor for the first).
C7_VerdictIsConjunction ==
    pc = "done" =>
        verdict = (\A i \in 1..Len(entries) : EntryOk(entries, start_hash, i))

\* Only the last entry fails, and only its signature check.
C7_Witness ==
    /\ pc = "done"
    /\ Len(entries) = MaxLen
    /\ \A i \in 1..(MaxLen - 1) : EntryOk(entries, start_hash, i)
    /\ ~verify_event(entries[MaxLen].event)
    /\ entries[MaxLen].end_hash =
          next_hash(Prev(entries, start_hash, MaxLen), entries[MaxLen].num_hashes,
                    entries[MaxLen].event)
    /\ verdict = FALSE

\* C8: a next_entry_mut call appends an entry with the given count and event
\* whose end_hash is next_hash of the anchor before the call, and leaves the
\* rolling anchor equal to it.
C8_CallPost ==
    LET e == entries'[Len(entries')]
    IN  /\ Len(entries') = Len(entries) + 1
        /\ SubSeq(entries', 1, Len(entries)) = entries
        /\ e.end_hash = next_hash(end_hash, e.num_hashes, e.event)
        /\ end_hash' = e.end_hash

\* C8: after any sequence of such calls from h the rolling anchor is the last
\* end_hash, every entry is hash-linked to its predecessor, and with one count
\* n throughout the chain is create_entries(h, n, events).
C8_StreamInv ==
    (origin = "stream" /\ Untouched) =>
        /\ end_hash = entries[Len(entries)].end_hash
        /\ \A i \in 1..Len(entries) :
              entries[i].end_hash =
                  next_hash(Prev(entries, anchor, i), entries[i].num_hashes, entries[i].event)
        /\ \A n \in HashCounts :
              (\A i \in 1..Len(entries) : entries[i].num_hashes = n)
                  => entries = create_entries(anchor, n, EventsOf(entries))

C8_Streaming == [][NextEntryMut => C8_CallPost]_vars /\ []C8_StreamInv

C8_Witness ==
    /\ origin = "stream"
    /\ Untouched
    /\ Len(entries) = MaxLen
    /\ \A i \in 1..MaxLen : entries[i].num_hashes = MaxHashes
    /\ \E i \in 1..MaxLen : entries[i].event.type = "Claim"
    /\ \E i \in 1..MaxLen : entries[i].event.type = "Transaction"
    /\ entries = create_entries(anchor, MaxHashes, EventsOf(entries))

\* C9 as stated: after an entry that is followed by another one was deleted
\* from a verifying chain, the chain is rejected.
C9_AnyOmissionRejected ==
    ( /\ pc = "done"
      /\ tamper.kind = "remove"
      /\ tamper.index < Len(original)
      /\ start_hash = anchor )
    => verdict = FALSE

\* C9 amended: the chain is rejected unless the deleted entry was a Tick with
\* num_hashes = 0, whose end_hash is its predecessor's.
C9_WorkOmissionRejected ==
    ( /\ pc = "done"
      /\ tamper.kind = "remove"
      /\ tamper.index < Len(original)
      /\ start_hash = anchor
      /\ ~(original[tamper.index].event = Tick /\ original[tamper.index].num_hashes = 0) )
    => verdict = FALSE

\* A one-hash Tick followed by a signed event was deleted.
C9_Witness ==
    /\ pc = "done"
    /\ tamper.kind = "remove"
    /\ tamper.index < Len(original)
    /\ original[tamper.index + 1].event.type # "Tick"
    /\ start_hash = anchor
    /\ original[tamper.index].event = Tick
    /\ original[tamper.index].num_hashes = 1
    /\ verdict = FALSE

\* C10: for a split of the entries into a non-empty A and a B, the verdict for
\* A ++ B against h is the verdict for A against h and the verdict for B
\* against the end_hash of the last entry of A.
C10_ChainSplitting ==
    pc = "done" =>
        \A k \in 1..Len(entries) :
            verdict =
                ( /\ verify_slice_seq(SubSeq(entries, 1, k), start_hash)
                  /\ verify_slice_seq(SubSeq(entries, k + 1, Len(entries)),
                                      entries[k].end_hash) )

\* A chain of full length whose only bad entry is the last.
C10_Witness ==
    /\ pc = "done"
    /\ Len(entries) = MaxLen
    /\ verdict = FALSE
    /\ verify_slice_seq(SubSeq(entries, 1, MaxLen - 1), start_hash)
    /\ ~verify_slice_seq(SubSeq(entries, MaxLen, MaxLen), entries[MaxLen - 1].end_hash)
    /\ \E i \in 1..MaxLen : entries[i].event.type # "Tick"

====
